---- MODULE Spec2Model ----
(***************************************************************************)
(* A model of src/main.rs: the command-line utility that runs statements   *)
(* ("query") or follows newly inserted rows of one table ("tail") on a     *)
(* MySQL connection and writes the rows as JSON lines or CSV.              *)
(*                                                                         *)
(* The program is one sequential process (main); the database is its       *)
(* environment: other clients insert rows at any moment (Insert), and any  *)
(* call on the connection or on standard output may fail, which the code   *)
(* turns into a panic with unwrap()/expect().                              *)
(***************************************************************************)
EXTENDS Integers, Sequences, FiniteSets

\* ------------------------------------------------------------------ bounds

\* Rows that are ever inserted into the table.
MaxRows == 3

\* u32::MAX, the largest value of the cursor's type, scaled to the model's
\* value range (TLC's integers are 32 bits wide and signed).
CursorMax == 10

\* The length of the longest byte string a cell holds.
MaxBytes == 3

\* ------------------------------------------------------------ NativeValue

\* mysql::Value as one record shape: tag names the variant; n carries the
\* number of Int / UInt / Float; b carries the bytes of Bytes, the fields
\* <<year, month, day, hour, min, sec, usec>> of Date and the fields
\* <<is_neg, days, hours, minutes, seconds, microseconds>> of Time.
NullV == [tag |-> "NULL", n |-> 0, b |-> <<>>]

IntV(num) == [tag |-> "Int", n |-> num, b |-> <<>>]

UIntV(num) == [tag |-> "UInt", n |-> num, b |-> <<>>]

BytesV(bytes) == [tag |-> "Bytes", n |-> 0, b |-> bytes]

DateV(y, mo, d, h, mi, s, us) ==
    [tag |-> "Date", n |-> 0, b |-> <<y, mo, d, h, mi, s, us>>]

\* ------------------------------------------------------------- byte text

\* The ASCII code of a decimal digit.
DigitByte(d) == 48 + d

IsDigit(c) == c >= DigitByte(0) /\ c <= DigitByte(9)

RECURSIVE DecStr(_)
\* The decimal text of a natural number, as ASCII bytes.
DecStr(num) ==
    IF num < 10 THEN <<DigitByte(num)>>
    ELSE Append(DecStr(num \div 10), DigitByte(num % 10))

RECURSIVE DecVal(_)
\* The number a sequence of ASCII digits denotes.
DecVal(bytes) ==
    IF bytes = <<>> THEN 0
    ELSE 10 * DecVal(SubSeq(bytes, 1, Len(bytes) - 1)) + (bytes[Len(bytes)] - DigitByte(0))

AllDigits(bytes) == bytes # <<>> /\ \A i \in 1..Len(bytes) : IsDigit(bytes[i])

RECURSIVE LexLess(_, _)
\* Byte-wise lexicographic order of two byte strings.
LexLess(x, y) ==
    IF y = <<>> THEN FALSE
    ELSE IF x = <<>> THEN TRUE
    ELSE IF x[1] # y[1] THEN x[1] < y[1]
    ELSE LexLess(Tail(x), Tail(y))

\* i64 / u64 / f64 .to_string(): a minus sign, then the decimal digits.
NumStr(num) == IF num < 0 THEN <<45>> \o DecStr(-num) ELSE DecStr(num)

\* A number in decimal, left-padded with zeros to a width ("{:02}").
Pad(num, width) ==
    LET d == DecStr(num)
    IN  IF Len(d) >= width THEN d
        ELSE [i \in 1..(width - Len(d)) |-> DigitByte(0)] \o d

\* ------------------------------------------------------ str::from_utf8

IsCont(c) == c >= 128 /\ c <= 191

RECURSIVE Utf8Valid(_)
\* str::from_utf8(bytes).is_ok(): well-formed UTF-8, no overlong forms,
\* no surrogates, nothing above U+10FFFF.
Utf8Valid(bytes) ==
    IF bytes = <<>> THEN TRUE
    ELSE LET c == bytes[1]
             k == Len(bytes)
             at(i) == IF i <= k THEN bytes[i] ELSE 0
             rest(j) == SubSeq(bytes, j + 1, k)
         IN  IF c < 128 THEN Utf8Valid(rest(1))
             ELSE IF c >= 194 /\ c <= 223
                  THEN IsCont(at(2)) /\ Utf8Valid(rest(2))
             ELSE IF c >= 224 /\ c <= 239
                  THEN /\ IsCont(at(2)) /\ IsCont(at(3))
                       /\ (c = 224 => at(2) >= 160)
                       /\ (c = 237 => at(2) <= 159)
                       /\ Utf8Valid(rest(3))
             ELSE IF c >= 240 /\ c <= 244
                  THEN /\ IsCont(at(2)) /\ IsCont(at(3)) /\ IsCont(at(4))
                       /\ (c = 240 => at(2) >= 144)
                       /\ (c = 244 => at(2) <= 143)
                       /\ Utf8Valid(rest(4))
             ELSE FALSE

\* ------------------------------------------------------- base64::encode

\* The URL-safe alphabet: '-' and '_' in the place of '+' and '/'.
B64CharUrlSafe(i) ==
    IF i < 26 THEN 65 + i
    ELSE IF i < 52 THEN 97 + (i - 26)
    ELSE IF i < 62 THEN 48 + (i - 52)
    ELSE IF i = 62 THEN 45
    ELSE 95

\* The standard alphabet: A-Z, a-z, 0-9, '+', '/'.
B64Char(i) ==
    IF i < 26 THEN 65 + i
    ELSE IF i < 52 THEN 97 + (i - 26)
    ELSE IF i < 62 THEN 48 + (i - 52)
    ELSE IF i = 62 THEN 43
    ELSE 47

RECURSIVE Base64Encode(_)
\* base64::encode(bytes): three bytes to four characters, '=' padding.
Base64Encode(bytes) ==
    LET k == Len(bytes)
    IN  IF k = 0 THEN <<>>
        ELSE IF k = 1 THEN
            << B64Char(bytes[1] \div 4), B64Char((bytes[1] % 4) * 16), 61, 61 >>
        ELSE IF k = 2 THEN
            << B64Char(bytes[1] \div 4),
               B64Char((bytes[1] % 4) * 16 + bytes[2] \div 16),
               B64Char((bytes[2] % 16) * 4), 61 >>
        ELSE
            << B64Char(bytes[1] \div 4),
               B64Char((bytes[1] % 4) * 16 + bytes[2] \div 16),
               B64Char((bytes[2] % 16) * 4 + bytes[3] \div 64),
               B64Char(bytes[3] % 64) >> \o Base64Encode(SubSeq(bytes, 4, k))

\* Bytes to text, as both normalizers do it: the text itself when the bytes
\* are UTF-8, their base64 encoding otherwise.
BytesText(bytes) == IF Utf8Valid(bytes) THEN bytes ELSE Base64Encode(bytes)

\* ------------------------------------------------- chrono: dates, durations

TimeV(is_neg, days, hours, minutes, seconds, microseconds) ==
    [tag |-> "Time", n |-> 0,
     b |-> <<IF is_neg THEN 1 ELSE 0, days, hours, minutes, seconds, microseconds>>]

\* Float(num) with a finite num; Float(NaN) and the infinities are FloatNaN.
FloatV(num) == [tag |-> "Float", n |-> num, b |-> <<>>]

FloatNaN == [tag |-> "FloatNaN", n |-> 0, b |-> <<>>]

\* No --time-zone option was given (tz = None).
NoTz == -100000

\* FixedOffset::east(secs) panics unless -86400 < secs < 86400.
OffsetInRange(secs) == secs > -86400 /\ secs < 86400

IsLeapYear(y) == (y % 4 = 0 /\ y % 100 # 0) \/ y % 400 = 0

DaysInMonth(y, mo) ==
    IF mo = 2 THEN (IF IsLeapYear(y) THEN 29 ELSE 28)
    ELSE IF mo \in {4, 6, 9, 11} THEN 30 ELSE 31

\* tz.ymd(..) and .and_hms_micro(..) panic on a date or a time of day that
\* does not exist (MySQL's zero date is one).
DateExists(f) ==
    /\ f[2] >= 1 /\ f[2] <= 12
    /\ f[3] >= 1 /\ f[3] <= DaysInMonth(f[1], f[2])
    /\ f[4] < 24 /\ f[5] < 60 /\ f[6] < 60 /\ f[7] < 2000000

\* The fraction chrono prints after the seconds: nothing, milliseconds when
\* the microseconds are whole milliseconds, microseconds otherwise.
FracText(us) ==
    IF us = 0 THEN <<>>
    ELSE IF us % 1000 = 0 THEN <<46>> \o Pad(us \div 1000, 3)
    ELSE <<46>> \o Pad(us, 6)

\* DateTime<FixedOffset>::to_rfc3339 of the local date and time f at offset
\* off: "2021-03-04T10:30:00+09:00". Microseconds from 1000000 on are a
\* leap second, printed as second 60.
Rfc3339(f, off) ==
    LET leap == f[7] >= 1000000
        sec  == IF leap THEN f[6] + 1 ELSE f[6]
        us   == IF leap THEN f[7] - 1000000 ELSE f[7]
        mins == (IF off < 0 THEN -off ELSE off) \div 60
    IN  Pad(f[1], 4) \o <<45>> \o Pad(f[2], 2) \o <<45>> \o Pad(f[3], 2) \o <<84>>
        \o Pad(f[4], 2) \o <<58>> \o Pad(f[5], 2) \o <<58>> \o Pad(sec, 2)
        \o FracText(us)
        \o <<IF off < 0 THEN 45 ELSE 43>>
        \o Pad(mins \div 60, 2) \o <<58>> \o Pad(mins % 60, 2)

\* format!("{}", duration) of the Duration built from the fields of a Time
\* value: ISO 8601, "P3DT8100S"; the sign negates the whole duration.
DurationText(f) ==
    LET total   == f[2] * 86400 + f[3] * 3600 + f[4] * 60 + f[5] + f[6] \div 1000000
        us      == f[6] % 1000000
        days    == total \div 86400
        secs    == total % 86400
        hasdate == days # 0
        hastime == secs # 0 \/ us # 0 \/ ~hasdate
    IN  (IF f[1] = 1 /\ (total # 0 \/ us # 0) THEN <<45>> ELSE <<>>)
        \o <<80>>
        \o (IF hasdate THEN DecStr(days) \o <<68>> ELSE <<>>)
        \o (IF hastime THEN <<84>> \o DecStr(secs) \o FracText(us) \o <<83>> ELSE <<>>)

\* ------------------------------------------------------ Value Normalizer

\* json::Value: Null, String(s) or Number(n).
JNull == [jt |-> "Null", s |-> <<>>, n |-> 0]

JString(text) == [jt |-> "String", s |-> text, n |-> 0]

JNumber(num) == [jt |-> "Number", s |-> <<>>, n |-> num]

\* The DATETIME branch read as UTC when no offset is given.
DateTextUtc(val, tz) ==
    IF ~DateExists(val.b) THEN [ok |-> FALSE, why |-> "date", text |-> <<>>]
    ELSE [ok |-> TRUE, why |-> "", text |-> Rfc3339(val.b, IF tz = NoTz THEN 0 ELSE tz)]

\* The DATETIME branch of both normalizers: tz.expect(..) panics without an
\* offset, and so do ymd / and_hms_micro on a date that does not exist.
DateText(val, tz) ==
    IF tz = NoTz THEN [ok |-> FALSE, why |-> "timezone", text |-> <<>>]
    ELSE IF ~DateExists(val.b) THEN [ok |-> FALSE, why |-> "date", text |-> <<>>]
    ELSE [ok |-> TRUE, why |-> "", text |-> Rfc3339(val.b, tz)]

\* to_json_value(val, tz): ok is FALSE where the function panics.
to_json_value(val, tz) ==
    CASE val.tag = "NULL"  -> [ok |-> TRUE, why |-> "", v |-> JNull]
      [] val.tag = "Bytes" -> [ok |-> TRUE, why |-> "", v |-> JString(BytesText(val.b))]
      [] val.tag = "Int"   -> [ok |-> TRUE, why |-> "", v |-> JNumber(val.n)]
      [] val.tag = "UInt"  -> [ok |-> TRUE, why |-> "", v |-> JNumber(val.n)]
      [] val.tag = "Float" -> [ok |-> TRUE, why |-> "", v |-> JNumber(val.n)]
      [] val.tag = "FloatNaN" -> [ok |-> FALSE, why |-> "float", v |-> JNull]
      [] val.tag = "Date"  ->
            LET d == DateText(val, tz)
            IN  [ok |-> d.ok, why |-> d.why, v |-> IF d.ok THEN JString(d.text) ELSE JNull]
      [] val.tag = "Time"  -> [ok |-> TRUE, why |-> "", v |-> JString(DurationText(val.b))]

\* to_csv_value(val, tz): ok is FALSE where the function panics.
to_csv_value(val, tz) ==
    CASE val.tag = "NULL"  -> [ok |-> TRUE, why |-> "", v |-> <<>>]
      [] val.tag = "Bytes" -> [ok |-> TRUE, why |-> "", v |-> BytesText(val.b)]
      [] val.tag = "Int"   -> [ok |-> TRUE, why |-> "", v |-> NumStr(val.n)]
      [] val.tag = "UInt"  -> [ok |-> TRUE, why |-> "", v |-> NumStr(val.n)]
      [] val.tag = "Float" -> [ok |-> TRUE, why |-> "", v |-> NumStr(val.n)]
      [] val.tag = "FloatNaN" -> [ok |-> TRUE, why |-> "", v |-> <<78, 97, 78>>]
      [] val.tag = "Date"  ->
            LET d == DateText(val, tz)
            IN  [ok |-> d.ok, why |-> d.why, v |-> d.text]
      [] val.tag = "Time"  -> [ok |-> TRUE, why |-> "", v |-> DurationText(val.b)]

\* ---------------------------------------------------- the database (MySQL)

\* The conversion as a cast of the integer ("as u32"): a number outside the
\* range of the type wraps around.
from_value_u32_wrapping(val) ==
    CASE val.tag \in {"Int", "UInt"} ->
            [ok |-> TRUE, n |-> val.n % (CursorMax + 1)]
      [] val.tag = "Bytes" ->
            IF AllDigits(val.b)
            THEN [ok |-> TRUE, n |-> DecVal(val.b) % (CursorMax + 1)]
            ELSE [ok |-> FALSE, n |-> 0]
      [] OTHER -> [ok |-> FALSE, n |-> 0]

\* The conversion with NULL read as 0 (the value unwrap_or_default gives).
from_value_u32_null_as_zero(val) ==
    CASE val.tag = "NULL" -> [ok |-> TRUE, n |-> 0]
      [] val.tag \in {"Int", "UInt"} ->
            [ok |-> val.n >= 0 /\ val.n <= CursorMax, n |-> val.n]
      [] val.tag = "Bytes" ->
            IF AllDigits(val.b) /\ Len(val.b) <= Len(DecStr(CursorMax))
               /\ DecVal(val.b) <= CursorMax
            THEN [ok |-> TRUE, n |-> DecVal(val.b)]
            ELSE [ok |-> FALSE, n |-> 0]
      [] OTHER -> [ok |-> FALSE, n |-> 0]

\* FromValue for u32, as row.get::<u32, _>(..).unwrap() uses it: an integer
\* inside the range of the type, or bytes that are its decimal text;
\* anything else (NULL, a negative or too large number, other text) is an
\* error, which the caller turns into a panic.
from_value_u32(val) ==
    CASE val.tag \in {"Int", "UInt"} ->
            [ok |-> val.n >= 0 /\ val.n <= CursorMax, n |-> val.n]
      [] val.tag = "Bytes" ->
            IF AllDigits(val.b) /\ Len(val.b) <= Len(DecStr(CursorMax))
               /\ DecVal(val.b) <= CursorMax
            THEN [ok |-> TRUE, n |-> DecVal(val.b)]
            ELSE [ok |-> FALSE, n |-> 0]
      [] OTHER -> [ok |-> FALSE, n |-> 0]

RECURSIVE NumPrefix(_)
\* The digits a text starts with ("12abc" -> "12").
NumPrefix(bytes) ==
    IF bytes = <<>> \/ ~IsDigit(bytes[1]) THEN <<>>
    ELSE <<bytes[1]>> \o NumPrefix(Tail(bytes))

\* The number MySQL compares with a numeric parameter: the number itself,
\* or for text the number the text starts with (0 when it starts with none).
SqlNum(val) == IF val.tag = "Bytes" THEN DecVal(NumPrefix(val.b)) ELSE val.n

\* The statement written with ">=" in place of ">".
SqlGreaterOrEqual(val, p) == val.tag # "NULL" /\ SqlNum(val) >= p

\* "{column} > ?": NULL compares as unknown and is not selected.
SqlGreater(val, p) == val.tag # "NULL" /\ SqlNum(val) > p

\* The order of "ORDER BY {column}" and of max({column}): NULL first,
\* numbers by value, text byte by byte.
SqlLess(x, y) ==
    IF x.tag = "NULL" THEN y.tag # "NULL"
    ELSE IF y.tag = "NULL" THEN FALSE
    ELSE IF x.tag = "Bytes" THEN LexLess(x.b, y.b)
    ELSE x.n < y.n

\* Row i sorts before row j; rows with equal keys keep their insertion order.
RowBefore(tbl, i, j) ==
    \/ SqlLess(tbl[i].id, tbl[j].id)
    \/ (~SqlLess(tbl[j].id, tbl[i].id) /\ i <= j)

RECURSIVE OrderBy(_, _)
\* The rows rids of tbl in the order of "ORDER BY {column}".
OrderBy(tbl, rids) ==
    IF rids = {} THEN <<>>
    ELSE LET m == CHOOSE i \in rids : \A j \in rids : RowBefore(tbl, i, j)
         IN  <<m>> \o OrderBy(tbl, rids \ {m})

\* The aggregate written as min() in place of max().
SqlMin(tbl) ==
    LET vals == {tbl[i].id : i \in DOMAIN tbl} \ {NullV}
    IN  IF vals = {} THEN NullV
        ELSE CHOOSE m \in vals : \A v \in vals : ~SqlLess(v, m)

\* "SELECT max({column}) AS max_id FROM {table};": NULL for no rows.
SqlMax(tbl) ==
    LET vals == {tbl[i].id : i \in DOMAIN tbl} \ {NullV}
    IN  IF vals = {} THEN NullV
        ELSE CHOOSE m \in vals : \A v \in vals : ~SqlLess(m, v)

\* The statement executed with the value after the cursor as its parameter.
SelectGreaterSkipping(tbl, p) ==
    OrderBy(tbl, {i \in DOMAIN tbl : SqlGreater(tbl[i].id, p + 1)})

\* "SELECT * FROM {table} WHERE {column} > ? ORDER BY {column};" with
\* parameter p: the numbers of the rows, in result order.
SelectGreater(tbl, p) ==
    OrderBy(tbl, {i \in DOMAIN tbl : SqlGreater(tbl[i].id, p)})

\* ------------------------------------------------------------ the inputs

\* --format.
Formats == {"Csv", "Json"}

\* --time-zone: absent, nine hours east, or outside FixedOffset's range.
TzOffsets == {NoTz, 32400, 86400}

\* The statements of query mode: every row of the table, or its first row.
SelectAll == "SELECT * FROM t"

SelectOne == "SELECT * FROM t LIMIT 1"

\* -e SQL ...: none (the statement is read from standard input) or two.
SqlLists == {<<>>, <<SelectAll, SelectOne>>}

\* What standard input holds.
StdinText == SelectAll

\* The table's columns, in the order of the table definition, and the type
\* of the order column (COLUMN of "tail TABLE COLUMN" is "id").
Schemas ==
    { [columns |-> <<"id", "val">>, coltype |-> "int"],
      [columns |-> <<"val", "id">>, coltype |-> "int"],
      [columns |-> <<"id", "val">>, coltype |-> "text"] }

\* The values other clients store in the order column.
OrderValues(coltype) ==
    IF coltype = "int"
    THEN {IntV(1), IntV(2), IntV(CursorMax + 1)}
    ELSE {BytesV(DecStr(1)), BytesV(DecStr(2)), BytesV(DecStr(CursorMax)),
          BytesV(DecStr(5) \o <<120>>)}

\* The values they store in the other column.
PayloadValues == {IntV(-7), DateV(2021, 3, 4, 10, 30, 0, 0)}

\* The bytes the cells of a BLOB or text column are built from: 'A', the
\* lead bytes of a two-byte and of a three-byte sequence, two continuation
\* bytes, and 0xFF, which no UTF-8 text holds.
SampleBytes == {65, 195, 224, 128, 160, 255}

RECURSIVE ByteStrings(_)
\* The byte strings of at most k sample bytes.
ByteStrings(k) ==
    IF k = 0 THEN {<<>>}
    ELSE LET shorter == ByteStrings(k - 1)
         IN  shorter \cup {Append(t, c) : t \in {u \in shorter : Len(u) = k - 1},
                                          c \in SampleBytes}

\* A value of every variant of mysql::Value, Bytes with every sample string.
AllValues ==
    {BytesV(bytes) : bytes \in ByteStrings(MaxBytes)}
        \cup {NullV, IntV(-7), UIntV(3), FloatV(2), FloatNaN,
              DateV(2021, 3, 4, 10, 30, 0, 0), TimeV(TRUE, 3, 2, 15, 0, 0)}

\* The bytes of a column name, for the order of String.
NameBytes(name) == IF name = "id" THEN <<105, 100>> ELSE <<118, 97, 108>>

\* ------------------------------------------------------------- the state

VARIABLES
    cmd,          \* opt.cmd: "query" or "tail"
    format,       \* opt.format
    tz,           \* opt.tz_offset (NoTz for None)
    sqls,         \* opt.cmd's sqls: the statements given with -e
    stmts,        \* the statements query mode runs (the local sqls)
    schema,       \* the table's columns and the order column's type
    table,        \* the rows of the table, in insertion order
    pc,           \* where main is
    last_id,      \* the cursor of tail mode (NoCursor before it is seeded)
    param,        \* the parameter of the latest execution of the tail statement
    column_names, \* the column names of the result set being read
    result,       \* the rows of the result set not yet read
    out,          \* the records written so far, to wtr or to stdout
    flushed,      \* how many of them have reached standard output
    err,          \* the panic that ended the run ("" for none)
    sqli,         \* the position in stmts of the statement being run
    executed,     \* the statements of query mode executed so far
    seed_len      \* the number of rows the table held when the cursor was seeded

vars == <<cmd, format, tz, sqls, stmts, schema, table, pc, last_id, param, column_names,
          result, out, flushed, err, sqli, executed, seed_len>>

\* The options never change.
opts == <<cmd, format, tz, sqls, schema>>

\* last_id before "let mut last_id" is reached.
NoCursor == -1

Init ==
    /\ cmd \in {"query", "tail"}
    /\ format \in Formats
    /\ tz \in TzOffsets
    /\ sqls \in (IF cmd = "query" THEN SqlLists ELSE {<<>>})
    /\ stmts = <<>>
    /\ schema \in Schemas
    /\ table = <<>>
    /\ pc = "connect"
    /\ last_id = NoCursor
    /\ param = NoCursor
    /\ column_names = <<>>
    /\ result = <<>>
    /\ out = <<>>
    /\ flushed = 0
    /\ err = ""
    /\ sqli = 0
    /\ executed = <<>>
    /\ seed_len = 0

\* ------------------------------------------------------------- panics

\* What a panic leaves on standard output: unwinding drops the csv writer,
\* whose Drop flushes what it has buffered; when the panic is the failed
\* write itself, the sink takes no more.
FlushedByDrop(why, written) ==
    IF format = "Json" \/ why # "io" THEN Len(written) ELSE flushed

\* A failure that is reported, after which main carries on where it was.
PanicIgnored(why, written) ==
    /\ err' = why
    /\ out' = written
    /\ flushed' = flushed
    /\ UNCHANGED <<opts, stmts, table, pc, last_id, param, column_names, result,
                   sqli, executed, seed_len>>

\* unwrap() / expect() on a failure: the process ends, having written the
\* records `written`.
Panic(why, written) ==
    /\ pc' = "failed"
    /\ err' = why
    /\ out' = written
    /\ flushed' = FlushedByDrop(why, written)
    /\ UNCHANGED <<opts, stmts, table, last_id, param, column_names, result,
                   sqli, executed, seed_len>>

\* ------------------------------------------------------- Result Emitter

\* One record of the output: a CSV header or row (cells are texts), or a
\* JSON line (keys and their values, in the order the object is written).
\* rid is the table row it shows, q the statement of query mode and p the
\* parameter of the tail execution that returned it.
Record(kind, rid, keys, cells) ==
    [kind |-> kind, rid |-> rid, q |-> sqli, p |-> param, keys |-> keys, cells |-> cells]

\* wtr.write_record(&column_names), for the result set of parameter p.
HeaderRecord(names, p) == [Record("header", 0, <<>>, names) EXCEPT !.p = p]

\* column_names.iter().map(|col_name| to_csv_value(&row[col_name], tz))
CsvCells(names, row) == [i \in 1..Len(names) |-> to_csv_value(row[names[i]], tz)]

\* column_names.iter().map(|col_name| (col_name, to_json_value(&row[col_name], tz)))
JsonCells(names, row) == [i \in 1..Len(names) |-> to_json_value(row[names[i]], tz)]

\* The conversions run in column order; the first that panics ends the run.
Failed(cells) == {i \in DOMAIN cells : ~cells[i].ok}

FirstFailure(cells) ==
    cells[CHOOSE i \in Failed(cells) : \A j \in Failed(cells) : i <= j].why

RECURSIVE SortNames(_)
\* Names in the order of String (byte by byte).
SortNames(names) ==
    IF names = {} THEN <<>>
    ELSE LET m == CHOOSE x \in names :
                    \A y \in names : x = y \/ LexLess(NameBytes(x), NameBytes(y))
         IN  <<m>> \o SortNames(names \ {m})

\* The keys of the json::Map the pairs are collected into: serde_json's Map
\* is a BTreeMap, so each name is there once, and they iterate in the order
\* of String.
MapKeys(names) == SortNames({names[i] : i \in DOMAIN names})

\* json::to_writer(&mut stdout, &row_obj): the object of one row.
JsonRecord(names, rid, row) ==
    LET keys == MapKeys(names)
    IN  Record("json", rid, keys, [i \in 1..Len(keys) |-> to_json_value(row[keys[i]], tz).v])

\* The CSV row with its cells in the order of the names, not of the columns.
CsvRecordSorted(names, rid, row) ==
    LET keys == MapKeys(names)
    IN  Record("row", rid, <<>>, [i \in 1..Len(keys) |-> to_csv_value(row[keys[i]], tz).v])

\* wtr.write_record(values): the CSV row of one table row.
CsvRecord(names, rid, row) ==
    LET cells == CsvCells(names, row)
    IN  Record("row", rid, <<>>, [i \in 1..Len(names) |-> cells[i].v])

\* The cells of a row as the chosen format converts them.
Cells(names, row) ==
    IF format = "Csv" THEN CsvCells(names, row) ELSE JsonCells(names, row)

RowRecord(names, rid, row) ==
    IF format = "Csv" THEN CsvRecord(names, rid, row) ELSE JsonRecord(names, rid, row)

\* The cells written one by one as they are converted: when a conversion
\* panics, the cells before it are in the output as a partial record.
WrittenCellwise(names, rid, row) ==
    LET cells == Cells(names, row)
        first == CHOOSE i \in Failed(cells) : \A j \in Failed(cells) : i <= j
        whole == RowRecord(names, rid, row)
    IN  Append(out, [whole EXCEPT !.keys = SubSeq(whole.keys, 1, first - 1),
                                  !.cells = SubSeq(whole.cells, 1, first - 1)])

\* The records written when a conversion of the row panics: the cells are
\* collected into values / row_obj before write_record / to_writer is
\* called, so nothing of the row.
WrittenAtConversionFailure(names, rid, row) == out

\* The row's id read before the row is written: when reading it panics,
\* the row is not in the output.
WrittenBeforeRow(names, rid, row) == out

\* The records written when reading the row's id panics: write_record /
\* to_writer come before row.get(column), so the row's record as well.
WrittenAtCursorFailure(names, rid, row) == Append(out, RowRecord(names, rid, row))

\* How many records are on standard output after a write that left
\* `written`: stdout takes a JSON line at once; the csv writer keeps
\* records in its buffer, and empties the buffer first when the new record
\* does not fit (it held `before` records).
FlushedAfterWrite(written, before) ==
    IF format = "Json" THEN {Len(written)} ELSE {flushed, before}

\* ------------------------------------------------------- Cursor Tracker

\* The cursor assigned from every row, without the comparison.
ObserveAssign(current, id) == id

\* if id > last_id { last_id = id; }
Observe(current, id) == IF id > current THEN id ELSE current

\* COLUMN of "tail TABLE COLUMN".
OrderColumn == "id"

\* ------------------------------------------------------------ main: start

\* Lines 124-146: the options, the connection, the offset.
Connect ==
    /\ pc = "connect"
    /\ \/ Panic("connect", out)
       \/ /\ tz # NoTz /\ ~OffsetInRange(tz)
          /\ Panic("offset", out)
       \/ /\ tz = NoTz \/ OffsetInRange(tz)
          /\ pc' = IF cmd = "query" THEN "read_sqls" ELSE "seed"
          /\ UNCHANGED <<opts, stmts, table, last_id, param, column_names, result,
                         out, flushed, err, sqli, executed, seed_len>>

\* ------------------------------------------------------------ query mode

\* The rows a statement returns, as row numbers.
ExecStatement(sql, tbl) ==
    IF sql = SelectAll THEN [i \in 1..Len(tbl) |-> i]
    ELSE IF tbl = <<>> THEN <<>> ELSE <<1>>

\* Lines 150-157: without -e, the statement is the whole of standard input.
ReadSqls ==
    /\ pc = "read_sqls"
    /\ \/ /\ sqls = <<>>
          /\ Panic("stdin", out)
       \/ /\ stmts' = IF sqls = <<>> THEN <<StdinText>> ELSE sqls
          /\ sqli' = 1
          /\ pc' = "statement"
          /\ UNCHANGED <<opts, table, last_id, param, column_names, result,
                         out, flushed, err, executed, seed_len>>

\* Lines 163-166 and 179-181: prepare and execute the next statement; CSV
\* writes the header.
QueryStatement ==
    /\ pc = "statement"
    /\ sqli <= Len(stmts)
    /\ \/ Panic("query", out)
       \/ /\ executed' = Append(executed, stmts[sqli])
          /\ column_names' = schema.columns
          /\ result' = ExecStatement(stmts[sqli], table)
          /\ out' = IF format = "Csv"
                    THEN Append(out, HeaderRecord(schema.columns, NoCursor))
                    ELSE out
          /\ \E f \in (IF format = "Csv" THEN {flushed, Len(out)} ELSE {flushed}) :
                flushed' = f
          /\ pc' = "rows"
          /\ UNCHANGED <<opts, stmts, table, last_id, param, err, sqli, seed_len>>

\* One turn of "for row in result": fetch the row, convert its cells, write
\* the record and, when tailing, move the cursor (lines 167-173, 182-189,
\* 212-223, 229-240, 248-260).
EmitRow(tailing) ==
    LET rid     == Head(result)
        row     == table[rid]
        cells   == Cells(column_names, row)
        written == Append(out, RowRecord(column_names, rid, row))
        id      == from_value_u32(row[OrderColumn])
    IN  \/ Panic("fetch", out)
        \/ /\ Failed(cells) # {}
           /\ Panic(FirstFailure(cells), WrittenAtConversionFailure(column_names, rid, row))
        \/ /\ Failed(cells) = {}
           /\ Panic("io", out)
        \/ /\ Failed(cells) = {}
           /\ tailing /\ ~id.ok
           /\ Panic("cursor", WrittenAtCursorFailure(column_names, rid, row))
        \/ /\ Failed(cells) = {}
           /\ tailing => id.ok
           /\ out' = written
           /\ \E f \in FlushedAfterWrite(written, Len(out)) : flushed' = f
           /\ result' = Tail(result)
           /\ last_id' = IF tailing THEN Observe(last_id, id.n) ELSE last_id
           /\ UNCHANGED <<opts, stmts, table, pc, param, column_names, err, sqli,
                          executed, seed_len>>

\* The end of a result set without wtr.flush(): what the csv writer has
\* buffered stays in its buffer.
EndResultNoFlush(nextpc) ==
    /\ pc' = nextpc
    /\ sqli' = IF cmd = "query" THEN sqli + 1 ELSE sqli
    /\ UNCHANGED <<opts, stmts, table, last_id, param, column_names, result,
                   out, flushed, err, executed, seed_len>>

\* The end of "for row in result": CSV flushes the writer; then the next
\* turn of the loop around it (lines 174, 190, 224-226, 241, 260).
EndResult(nextpc) ==
    \/ /\ format = "Csv"
       /\ Panic("io", out)
    \/ /\ flushed' = Len(out)
       /\ pc' = nextpc
       /\ sqli' = IF cmd = "query" THEN sqli + 1 ELSE sqli
       /\ UNCHANGED <<opts, stmts, table, last_id, param, column_names, result,
                      out, err, executed, seed_len>>

QueryRow == pc = "rows" /\ result # <<>> /\ EmitRow(FALSE)

QueryEnd == pc = "rows" /\ result = <<>> /\ EndResult("statement")

\* The loop over the statements left one statement early.
QueryExitEarly ==
    /\ pc = "statement"
    /\ sqli >= Len(stmts)
    /\ pc' = "done"
    /\ UNCHANGED <<opts, stmts, table, last_id, param, column_names, result,
                   out, flushed, err, sqli, executed, seed_len>>

\* After the last statement main returns.
QueryExit ==
    /\ pc = "statement"
    /\ sqli > Len(stmts)
    /\ pc' = "done"
    /\ UNCHANGED <<opts, stmts, table, last_id, param, column_names, result,
                   out, flushed, err, sqli, executed, seed_len>>

\* ------------------------------------------------------------- tail mode

\* Lines 195-199: the cursor starts at the maximum of the order column.
Seed ==
    /\ pc = "seed"
    /\ LET max_id == from_value_u32(SqlMax(table))
       IN  \/ Panic("query", out)
           \/ /\ ~max_id.ok
              /\ Panic("cursor", out)
           \/ /\ max_id.ok
              /\ last_id' = max_id.n
              /\ seed_len' = Len(table)
              /\ pc' = "prepare"
              /\ UNCHANGED <<opts, stmts, table, param, column_names, result, out,
                             flushed, err, sqli, executed>>

\* Lines 200-203: the tail statement is prepared once.
Prepare ==
    /\ pc = "prepare"
    /\ \/ Panic("query", out)
       \/ /\ pc' = IF format = "Csv" THEN "first_execute" ELSE "execute"
          /\ UNCHANGED <<opts, stmts, table, last_id, param, column_names, result,
                         out, flushed, err, sqli, executed, seed_len>>

\* stmt.execute((last_id, )): the rows above the cursor, as of now. The CSV
\* branch writes the header with its first execution (lines 209-211) and
\* none in the loop (228); the JSON loop takes the names anew (246-247).
Execute(header, rowspc) ==
    \/ Panic("query", out)
    \/ /\ param' = last_id
       /\ result' = SelectGreater(table, last_id)
       /\ column_names' = IF header \/ format = "Json" THEN schema.columns
                          ELSE column_names
       /\ out' = IF header THEN Append(out, HeaderRecord(schema.columns, last_id))
                 ELSE out
       /\ pc' = rowspc
       /\ UNCHANGED <<opts, stmts, table, last_id, flushed, err, sqli, executed,
                      seed_len>>

TailFirstExecute == pc = "first_execute" /\ Execute(TRUE, "first_rows")

TailFirstRow == pc = "first_rows" /\ result # <<>> /\ EmitRow(TRUE)

TailFirstEnd == pc = "first_rows" /\ result = <<>> /\ EndResult("execute")

\* The loop's execution writing a header of its own.
TailExecuteWithHeader == pc = "execute" /\ Execute(TRUE, "loop_rows")

TailExecute == pc = "execute" /\ Execute(FALSE, "loop_rows")

TailRow == pc = "loop_rows" /\ result # <<>> /\ EmitRow(TRUE)

\* The loop left when a result set has been read.
TailEndBreak == pc = "loop_rows" /\ result = <<>> /\ EndResult("done")

TailEnd == pc = "loop_rows" /\ result = <<>> /\ EndResult("execute")

\* --------------------------------------------------------- other clients

\* Another client inserts a row while the program runs.
Insert ==
    /\ pc \notin {"failed", "done"}
    /\ Len(table) < MaxRows
    /\ \E id \in OrderValues(schema.coltype), val \in PayloadValues :
            table' = Append(table, [id |-> id, val |-> val])
    /\ UNCHANGED <<opts, stmts, pc, last_id, param, column_names, result, out,
                   flushed, err, sqli, executed, seed_len>>

\* ------------------------------------------------------ the specification

\* The steps of main.
Main ==
    \/ Connect
    \/ ReadSqls
    \/ QueryStatement
    \/ QueryRow
    \/ QueryEnd
    \/ QueryExit
    \/ Seed
    \/ Prepare
    \/ TailFirstExecute
    \/ TailFirstRow
    \/ TailFirstEnd
    \/ TailExecute
    \/ TailRow
    \/ TailEnd

Next == Main \/ Insert

Spec == Init /\ [][Next]_vars

\* The process is scheduled: while main can take a step, it takes one.
FairSpec == Spec /\ WF_vars(Main)

\* The program run on a table of two rows that no other client changes:
\* the order column increases from the first row to the second, which holds
\* any value of AllValues.
ValueInit ==
    /\ cmd \in {"query", "tail"}
    /\ format \in Formats
    /\ tz \in TzOffsets
    /\ sqls \in (IF cmd = "query" THEN SqlLists ELSE {<<>>})
    /\ stmts = <<>>
    /\ schema \in Schemas
    /\ \E id1, id2 \in OrderValues(schema.coltype), val \in AllValues :
          /\ SqlNum(id1) < SqlNum(id2)
          /\ table = << [id |-> id1, val |-> IntV(-7)], [id |-> id2, val |-> val] >>
    /\ pc = "connect"
    /\ last_id = NoCursor
    /\ param = NoCursor
    /\ column_names = <<>>
    /\ result = <<>>
    /\ out = <<>>
    /\ flushed = 0
    /\ err = ""
    /\ sqli = 0
    /\ executed = <<>>
    /\ seed_len = 0

ValueSpec == ValueInit /\ [][Main]_vars

\* ------------------------------------------------------------ the claims

\* The records of the output that show a table row.
RowRecords == {k \in DOMAIN out : out[k].kind \in {"row", "json"}}

\* How often table row i has been emitted.
Emitted(i) == Cardinality({k \in RowRecords : out[k].rid = i})

\* The cursor value a table row carries, when it can be read as one.
CursorOf(i) == from_value_u32(table[i][OrderColumn])

Tailing == cmd = "tail" /\ last_id # NoCursor

\* C1: in tail mode, once the cursor is seeded, no step lowers it, whatever
\* the order-column values of the rows and in both formats.
C1_CursorNeverDecreases == [][Tailing => last_id' >= last_id]_vars

\* C1's case: the row just processed carries a value below the cursor (a
\* text column, whose result order is not the numeric order).
C1_Witness ==
    /\ Tailing
    /\ err = ""
    /\ RowRecords # {}
    /\ out[Len(out)].kind \in {"row", "json"}
    /\ CursorOf(out[Len(out)].rid).ok
    /\ CursorOf(out[Len(out)].rid).n < last_id

\* C2: every row a poll emits has an order-column value above the cursor
\* passed to that poll, and no row is emitted twice.
C2_NoReEmission ==
    cmd = "tail" =>
        /\ \A k \in RowRecords : SqlNum(table[out[k].rid][OrderColumn]) > out[k].p
        /\ \A i \in DOMAIN table : Emitted(i) <= 1

\* C2's case: rows were emitted by two polls with different parameters
\* while the table holds a row at or below the cursor.
C2_Witness ==
    /\ cmd = "tail"
    /\ \E k, l \in RowRecords : out[k].p < out[l].p
    /\ \E i \in DOMAIN table : SqlNum(table[i][OrderColumn]) <= last_id

\* A poll has been completed and the poller is about to execute the next.
AtPollBoundary == cmd = "tail" /\ pc = "execute" /\ param # NoCursor

\* C3, as claimed: started on a table that holds rows, with no insert
\* afterwards, tail has emitted each of those rows exactly once when its
\* first poll is over.
C3_Original ==
    (AtPollBoundary /\ seed_len > 0 /\ Len(table) = seed_len)
        => \A i \in 1..seed_len : Emitted(i) = 1

\* C3, amended: on an integer order column tail emits none of the rows the
\* table held when the cursor was seeded; with no insert afterwards it
\* emits no row at all.
C3_ExistingRowsNotEmitted ==
    (cmd = "tail" /\ schema.coltype = "int") =>
        /\ \A i \in 1..seed_len : Emitted(i) = 0
        /\ (Len(table) = seed_len => RowRecords = {})

\* C3's case: tail was seeded on two rows, nothing was inserted since, and
\* a poll is over.
C3_Witness ==
    /\ AtPollBoundary
    /\ schema.coltype = "int"
    /\ seed_len = 2
    /\ Len(table) = seed_len
    /\ RowRecords = {}

\* A row inserted while tail is polling whose order-column value is above
\* the values of all rows inserted before it.
Fresh(i) ==
    /\ Tailing
    /\ i \in DOMAIN table
    /\ i > seed_len
    /\ table[i].id.tag # "NULL"
    /\ \A j \in 1..(i - 1) :
            table[j].id.tag = "NULL" \/ SqlNum(table[j].id) < SqlNum(table[i].id)

\* C4: such a row is emitted, and exactly once, unless a fatal error ends
\* the run, however inserts interleave with the seed and the polls.
C4_FreshRowsEmittedOnce ==
    /\ [](\A i \in 1..MaxRows : Fresh(i) => Emitted(i) <= 1)
    /\ \A i \in 1..MaxRows : Fresh(i) ~> (Emitted(i) = 1 \/ err # "")

\* C4's case: a row inserted during polling, above all earlier rows, has
\* been emitted, and a later poll is over.
C4_Witness ==
    /\ AtPollBoundary
    /\ err = ""
    /\ \E i \in DOMAIN table : Fresh(i) /\ Emitted(i) = 1 /\ param >= SqlNum(table[i].id)

\* The greater of two cursor values.
Max2(a, b) == CHOOSE m \in {a, b} : m >= a /\ m >= b

\* A step in which tail has processed the first row of the result.
ObservedRow ==
    /\ Tailing
    /\ pc \in {"first_rows", "loop_rows"}
    /\ result # <<>>
    /\ result' = Tail(result)
    /\ err' = ""

\* C5: the cursor after observing a row's value v is max(cursor, v), and
\* observing v once more leaves it unchanged; the update does the same from
\* every cursor value of the domain.
C5_ObserveIsMax ==
    [][ObservedRow =>
          LET v == CursorOf(Head(result)).n
          IN  /\ last_id' = Max2(last_id, v)
              /\ Observe(last_id', v) = last_id'
              /\ \A c \in 0..CursorMax :
                     /\ Observe(c, v) = Max2(c, v)
                     /\ Observe(Observe(c, v), v) = Observe(c, v)]_vars

\* C5's case: two rows with the same order-column value were observed one
\* after the other.
C5_Witness ==
    /\ Tailing
    /\ err = ""
    /\ Len(out) >= 2
    /\ out[Len(out)].kind \in {"row", "json"}
    /\ out[Len(out) - 1].kind \in {"row", "json"}
    /\ CursorOf(out[Len(out)].rid).n = CursorOf(out[Len(out) - 1].rid).n
    /\ last_id = CursorOf(out[Len(out)].rid).n

\* Table row i holds a DateTime value in some column.
HasDate(i) == \E c \in {schema.columns[j] : j \in DOMAIN schema.columns} : table[i][c].tag = "Date"

\* main is reading a result set.
ReadingRows == pc \in {"rows", "first_rows", "loop_rows"}

\* The row records that have reached standard output.
RowsOnSink == {k \in RowRecords : k <= flushed}

\* C6, as claimed: when the run has aborted for a DateTime value without a
\* timezone offset, no row has reached the sink.
C6_Original == (tz = NoTz /\ err = "timezone") => RowsOnSink = {}

\* C6, amended: without a timezone offset no row that holds a DateTime
\* value is ever emitted, and the step that reads such a row aborts the run
\* without writing anything; the rows read before it stay emitted.
C6_AbortAtDateTimeRow ==
    [][tz = NoTz =>
          /\ \A k \in DOMAIN out' :
                 out'[k].kind \in {"row", "json"} => ~HasDate(out'[k].rid)
          /\ (ReadingRows /\ result # <<>> /\ HasDate(Head(result)) /\ table' = table)
                 => (pc' = "failed" /\ err' # "" /\ out' = out)
      ]_vars

\* C6's case: the run aborted at a DateTime value after rows without one
\* had reached the sink.
C6_Witness ==
    /\ tz = NoTz
    /\ err = "timezone"
    /\ pc = "failed"
    /\ RowsOnSink # {}
    /\ HasDate(Head(result))

\* C7: in tail mode, once a failure has occurred no query is executed, no
\* row is emitted and the cursor does not change.
C7_FailureIsAbsorbing ==
    [][(cmd = "tail" /\ err # "") =>
          UNCHANGED <<pc, last_id, param, result, column_names, out, flushed, err>>]_vars

\* C7's case: a query failed during polling, after rows had been emitted.
C7_Witness ==
    /\ cmd = "tail"
    /\ pc = "failed"
    /\ err = "query"
    /\ param # NoCursor
    /\ RowRecords # {}

\* C8: tail mode never exits; unless a fatal error occurs, reading a result
\* set is followed by the next execution of the poll statement, also when
\* the result set is empty.
C8_TailNeverStops ==
    /\ [](cmd = "tail" => pc # "done")
    /\ (cmd = "tail" /\ pc \in {"first_rows", "loop_rows"}) ~> (pc = "execute" \/ err # "")
    /\ (cmd = "tail" /\ pc = "execute") ~> (pc = "loop_rows" \/ err # "")

\* C8's case: a poll that returned no row is over, after an earlier poll
\* had emitted rows, and the poller is about to execute the statement again.
C8_Witness ==
    /\ AtPollBoundary
    /\ err = ""
    /\ RowRecords # {}
    /\ \A k \in RowRecords : out[k].p < param

\* The statements query mode has to run.
Statements == IF sqls = <<>> THEN <<StdinText>> ELSE sqls

\* C9: query mode executes the statements once each in the order given
\* (the text of standard input when none is given), emits every row of a
\* result set before it moves to the next statement, and exits unless a
\* failure ends it.
C9_QueryRunsEachStatementOnce ==
    /\ [](cmd = "query" =>
            /\ Len(executed) <= Len(Statements)
            /\ executed = SubSeq(Statements, 1, Len(executed))
            /\ (pc = "done" => executed = Statements)
            /\ \A k, l \in DOMAIN out : k < l => out[k].q <= out[l].q)
    /\ [][cmd = "query" =>
            /\ (result # <<>> /\ result' # result /\ err' = "")
                  => /\ result' = Tail(result)
                     /\ Len(out') = Len(out) + 1
                     /\ out'[Len(out')].rid = Head(result)
                     /\ out'[Len(out')].q = Len(executed)
            /\ (executed' # executed) => result = <<>>
            /\ (pc' = "done") => result = <<>>
       ]_vars
    /\ (cmd = "query") ~> (pc = "done" \/ err # "")

\* C9's case: both statements of the list were run, each emitted rows, and
\* main has returned.
C9_Witness ==
    /\ cmd = "query"
    /\ pc = "done"
    /\ executed = <<SelectAll, SelectOne>>
    /\ \E k, l \in RowRecords : out[k].q = 1 /\ out[l].q = 2

\* C10, as claimed: the keys of every JSON line are the column names of the
\* result set, in the order of its columns.
C10_Original ==
    \A k \in DOMAIN out : out[k].kind = "json" => out[k].keys = schema.columns

\* The header records of the output.
Headers == {k \in DOMAIN out : out[k].kind = "header"}

\* The header a CSV row stands under: the header of its statement in query
\* mode, the one header of the output in tail mode.
HeaderOf(k) ==
    CHOOSE h \in Headers : h < k /\ (cmd = "query" => out[h].q = out[k].q)

\* C11: in CSV output every header is the column names of the result set in
\* column order, and every data row, in query mode and in every poll of tail
\* mode, stands under a header, has as many cells as it, and has in cell i
\* the normalized value of the column the header names in cell i.
C11_CsvRowsMatchHeader ==
    format = "Csv" =>
        /\ \A h \in Headers : out[h].cells = schema.columns
        /\ \A k \in RowRecords :
              /\ \E h \in Headers : h < k /\ (cmd = "query" => out[h].q = out[k].q)
              /\ Len(out[k].cells) = Len(out[HeaderOf(k)].cells)
              /\ \A i \in 1..Len(out[k].cells) :
                     out[k].cells[i] =
                        to_csv_value(table[out[k].rid][out[HeaderOf(k)].cells[i]], tz).v

\* C11's case: tail mode has written a CSV row in a poll after the first
\* (its parameter is above the one the header was written with), for a
\* table whose column order is not the order of the names.
C11_Witness ==
    /\ cmd = "tail"
    /\ format = "Csv"
    /\ schema.columns = <<"val", "id">>
    /\ \E k \in RowRecords : out[k].p > out[HeaderOf(k)].p

\* A step in which main, writing CSV, executes a statement: a statement of
\* query mode, or the poll statement of tail mode.
ExecutesStatement ==
    /\ format = "Csv"
    /\ pc \in {"statement", "first_execute", "execute"}
    /\ pc' \in {"rows", "first_rows", "loop_rows"}

\* The step appends one header to the output.
WritesHeader == Len(out') = Len(out) + 1 /\ out'[Len(out')].kind = "header"

\* C12, as claimed: in CSV mode every execution of a statement, in query
\* mode and in tail mode, writes one header row.
C12_Original == [][ExecutesStatement => WritesHeader]_vars

\* C12, amended: in CSV mode every statement of query mode writes one header
\* row, before the data rows of that statement; in tail mode the first poll
\* writes the one header of the output, as its first record, and the polls
\* after it write none.
C12_HeaderPerStatementOncePerTail ==
    /\ [](format = "Csv" =>
            /\ cmd = "query" =>
                  /\ Cardinality(Headers) = Len(executed)
                  /\ \A q \in 1..Len(executed) :
                         /\ Cardinality({h \in Headers : out[h].q = q}) = 1
                         /\ \A h \in Headers, k \in RowRecords :
                                (out[h].q = q /\ out[k].q = q) => h < k
            /\ cmd = "tail" =>
                  /\ Cardinality(Headers) <= 1
                  /\ param # NoCursor => Headers = {1})
    /\ [][ExecutesStatement =>
             IF pc = "execute" THEN out' = out ELSE WritesHeader]_vars

\* C12's case: tail mode, writing CSV, has executed a poll after the first,
\* after rows had been written under the header.
C12_Witness ==
    /\ cmd = "tail"
    /\ format = "Csv"
    /\ pc = "loop_rows"
    /\ err = ""
    /\ RowRecords # {}
    /\ Headers = {1}

\* The UTF-8 encoding of a code point.
Utf8Encode(cp) ==
    IF cp < 128 THEN <<cp>>
    ELSE IF cp < 2048 THEN <<192 + (cp \div 64), 128 + (cp % 64)>>
    ELSE IF cp < 65536
         THEN <<224 + (cp \div 4096), 128 + ((cp \div 64) % 64), 128 + (cp % 64)>>
    ELSE <<240 + (cp \div 262144), 128 + ((cp \div 4096) % 64),
           128 + ((cp \div 64) % 64), 128 + (cp % 64)>>

\* A Unicode scalar value: a code point that is no surrogate.
IsScalarValue(cp) == cp >= 0 /\ cp <= 1114111 /\ ~(cp >= 55296 /\ cp <= 57343)

\* The code point whose bits a sequence of one to four bytes carries.
CodePoint(seq) ==
    CASE Len(seq) = 1 -> seq[1]
      [] Len(seq) = 2 -> (seq[1] % 32) * 64 + (seq[2] % 64)
      [] Len(seq) = 3 -> (seq[1] % 16) * 4096 + (seq[2] % 64) * 64 + (seq[3] % 64)
      [] Len(seq) = 4 -> (seq[1] % 8) * 262144 + (seq[2] % 64) * 4096
                            + (seq[3] % 64) * 64 + (seq[4] % 64)

RECURSIVE IsUtf8Text(_)
\* The bytes are the encodings of scalar values, one after the other.
IsUtf8Text(bytes) ==
    \/ bytes = <<>>
    \/ \E k \in 1..(IF Len(bytes) < 4 THEN Len(bytes) ELSE 4) :
          LET seq == SubSeq(bytes, 1, k)
          IN  /\ IsScalarValue(CodePoint(seq))
              /\ Utf8Encode(CodePoint(seq)) = seq
              /\ IsUtf8Text(SubSeq(bytes, k + 1, Len(bytes)))

\* The six bits a character of the standard base64 alphabet stands for
\* (-1 for any other character).
B64Val(c) ==
    IF c >= 65 /\ c <= 90 THEN c - 65
    ELSE IF c >= 97 /\ c <= 122 THEN c - 71
    ELSE IF c >= 48 /\ c <= 57 THEN c + 4
    ELSE IF c = 43 THEN 62
    ELSE IF c = 47 THEN 63
    ELSE -1

\* Standard padded base64: groups of four characters of the alphabet, the
\* last group ending in no, one or two '='.
IsBase64(text) ==
    /\ Len(text) % 4 = 0
    /\ \A i \in 1..Len(text) :
          \/ B64Val(text[i]) >= 0
          \/ /\ text[i] = 61
             /\ i > Len(text) - 2
             /\ i % 4 \in {0, 3}
             /\ \A j \in (i + 1)..Len(text) : text[j] = 61

RECURSIVE Base64Decode(_)
\* The bytes a standard padded base64 text stands for.
Base64Decode(text) ==
    IF text = <<>> THEN <<>>
    ELSE LET v(i) == IF text[i] = 61 THEN 0 ELSE B64Val(text[i])
             bits == v(1) * 262144 + v(2) * 4096 + v(3) * 64 + v(4)
             three == <<bits \div 65536, (bits \div 256) % 256, bits % 256>>
             kept == IF text[3] = 61 THEN 1 ELSE IF text[4] = 61 THEN 2 ELSE 3
         IN  SubSeq(three, 1, kept) \o Base64Decode(SubSeq(text, 5, Len(text)))

\* The text output record k shows for column "val": the CSV cell, or the
\* string of the JSON value (no text when the value is no string).
ValText(k) ==
    IF out[k].kind = "row"
    THEN [isText |-> TRUE,
          text |-> out[k].cells[CHOOSE i \in 1..Len(schema.columns) :
                                    schema.columns[i] = "val"]]
    ELSE LET jv == out[k].cells[CHOOSE i \in 1..Len(out[k].keys) : out[k].keys[i] = "val"]
         IN  [isText |-> jv.jt = "String", text |-> jv.s]

\* C13: a Bytes value comes out, in CSV and in JSON, as its text when the
\* bytes are UTF-8, and otherwise as standard padded base64 that decodes
\* back to the bytes.
C13_BytesTextOrBase64 ==
    \A k \in RowRecords :
        LET val == table[out[k].rid].val
        IN  val.tag = "Bytes" =>
              /\ ValText(k).isText
              /\ IF IsUtf8Text(val.b)
                 THEN ValText(k).text = val.b
                 ELSE /\ IsBase64(ValText(k).text)
                      /\ Base64Decode(ValText(k).text) = val.b

\* C13's case: a JSON line shows the one byte 0xFF, which is no UTF-8 and
\* takes two padding characters.
C13_Witness ==
    /\ format = "Json"
    /\ \E k \in RowRecords :
          /\ table[out[k].rid].val = BytesV(<<255>>)
          /\ ValText(k).text = <<47, 119, 61, 61>>

\* main is past the seed query of tail mode: in Polling.
Polling == pc \in {"prepare", "first_execute", "first_rows", "execute", "loop_rows"}

\* C14: the seed query of tail mode on an empty table ends the run with a
\* fatal error; the cursor is never seeded from an empty table, and without
\* a seeded cursor the poller is not in Polling, has executed no poll and
\* has written nothing, neither a row nor a CSV header.
C14_EmptyTableSeedFails ==
    /\ [](cmd = "tail" =>
            /\ last_id # NoCursor => seed_len > 0
            /\ last_id = NoCursor =>
                  (~Polling /\ param = NoCursor /\ out = <<>> /\ flushed = 0))
    /\ [][(cmd = "tail" /\ pc = "seed" /\ table = <<>> /\ pc' # pc) =>
             (pc' = "failed" /\ err' # "" /\ last_id' = NoCursor /\ out' = <<>>)]_vars

\* C14's case: tail, writing CSV, ran its seed query on the empty table and
\* failed at the conversion of the NULL maximum.
C14_Witness ==
    /\ cmd = "tail"
    /\ format = "Csv"
    /\ table = <<>>
    /\ pc = "failed"
    /\ err = "cursor"

\* main is between two result sets, or has returned.
BetweenResultSets == pc \in {"statement", "execute", "done"}

\* C15: when a result set has been read to its end (a statement of query
\* mode, a poll of tail mode), every record written so far has reached
\* standard output: none is buffered while the next statement is executed,
\* and the step that executes it starts from an empty buffer.
C15_FlushedPerResultSet ==
    /\ [](BetweenResultSets => flushed = Len(out))
    /\ [][(ReadingRows /\ result = <<>> /\ pc' # pc /\ err' = "") =>
             (BetweenResultSets' /\ flushed' = Len(out'))]_vars
    /\ [][(pc \in {"statement", "execute"} /\ pc' \in {"rows", "loop_rows"}) =>
             flushed = Len(out)]_vars

\* C15's case: tail, writing CSV, is at the end of a poll of two rows with
\* both still in the writer's buffer.
C15_Witness ==
    /\ cmd = "tail"
    /\ format = "Csv"
    /\ pc = "loop_rows"
    /\ result = <<>>
    /\ err = ""
    /\ flushed <= Len(out) - 2
    /\ out[Len(out)].p = param
    /\ out[Len(out) - 1].p = param
    /\ out[Len(out) - 1].kind = "row"

\* Some cell of table row i cannot be converted in the chosen format.
ConversionFails(i) == Failed(Cells(schema.columns, table[i])) # {}

\* C16: every record of the output is a whole row, all of whose cells
\* could be converted; the step that reads a row with a cell that cannot be
\* converted (a DateTime without an offset, a non-finite float in JSON)
\* ends the run and writes nothing, and the records written before it stay.
C16_RowsAreWrittenWhole ==
    /\ [](\A k \in RowRecords :
            /\ Len(out[k].cells) = Len(schema.columns)
            /\ ~ConversionFails(out[k].rid))
    /\ [][(ReadingRows /\ result # <<>> /\ ConversionFails(Head(result)) /\ pc' # pc) =>
             (pc' = "failed" /\ err' # "" /\ out' = out /\ flushed' >= flushed)]_vars

\* C16's case: the first row is on standard output as a JSON line and the
\* run has ended at the non-finite float of the second.
C16_Witness ==
    /\ format = "Json"
    /\ pc = "failed"
    /\ err = "float"
    /\ result # <<>>
    /\ table[Head(result)].val = FloatNaN
    /\ RowsOnSink # {}
    /\ Len(out) = 1

\* A step of tail mode at the first row of the result, whose cells can be
\* converted and which is fetched and written without failure.
TailRowStep ==
    /\ cmd = "tail"
    /\ pc \in {"first_rows", "loop_rows"}
    /\ result # <<>>
    /\ pc' # pc \/ result' # result
    /\ err' \notin {"fetch", "io"}
    /\ ~ConversionFails(Head(result))

\* The step has appended the record of the first row of the result.
WritesRow ==
    /\ Len(out') = Len(out) + 1
    /\ SubSeq(out', 1, Len(out)) = out
    /\ out'[Len(out')].kind \in {"row", "json"}
    /\ out'[Len(out')].rid = Head(result)

\* C17: in tail mode a row is written before its order-column value is
\* read: the step that processes a row writes it whether or not the value
\* can be read as a cursor value; when it cannot, the run ends with the row
\* written and on standard output and the cursor as it was; when it can,
\* the cursor moves in the same step.
C17_RowWrittenBeforeCursor ==
    [][TailRowStep =>
          /\ WritesRow
          /\ IF CursorOf(Head(result)).ok
             THEN err' = "" /\ last_id' = Observe(last_id, CursorOf(Head(result)).n)
             ELSE /\ pc' = "failed"
                  /\ err' = "cursor"
                  /\ last_id' = last_id
                  /\ flushed' = Len(out')]_vars

\* C17's case: tail has written a row whose order-column value ("5x") is
\* no number, and has ended at reading it.
C17_Witness ==
    /\ cmd = "tail"
    /\ pc = "failed"
    /\ err = "cursor"
    /\ out # <<>>
    /\ out[Len(out)].kind \in {"row", "json"}
    /\ out[Len(out)].rid = Head(result)
    /\ table[Head(result)].id.tag = "Bytes"
    /\ ~AllDigits(table[Head(result)].id.b)

\* The value is a number outside the range of the cursor's type.
OutOfRange(val) ==
    \/ val.tag \in {"Int", "UInt"} /\ (val.n < 0 \/ val.n > CursorMax)
    \/ val.tag = "Bytes" /\ AllDigits(val.b) /\ DecVal(val.b) > CursorMax

\* C18: the cursor, once seeded, and every parameter passed to the poll
\* statement lie in the range of u32; a seed value or a row's order-column
\* value outside the range ends the run with a fatal error and is not
\* stored in the cursor, wrapped or otherwise.
C18_CursorIsU32 ==
    /\ [](/\ last_id = NoCursor \/ last_id \in 0..CursorMax
          /\ param = NoCursor \/ param \in 0..CursorMax)
    /\ [][(cmd = "tail" /\ pc = "seed" /\ pc' # pc /\ OutOfRange(SqlMax(table))) =>
             (pc' = "failed" /\ err' # "" /\ last_id' = NoCursor)]_vars
    /\ [][(TailRowStep /\ OutOfRange(table[Head(result)][OrderColumn])) =>
             (pc' = "failed" /\ err' = "cursor" /\ last_id' = last_id)]_vars

\* C18's case: a poll returned a row whose order-column value is one above
\* the largest cursor value, and the run ended there with the cursor at
\* the value of the row before it.
C18_Witness ==
    /\ Tailing
    /\ pc = "failed"
    /\ err = "cursor"
    /\ table[Head(result)].id = IntV(CursorMax + 1)
    /\ last_id = 2
    /\ \E k \in RowRecords : CursorOf(out[k].rid).n = 2

\* The value the cursor was seeded with: the maximum of the order column
\* over the rows the table held then.
SeedValue == from_value_u32(SqlMax(SubSeq(table, 1, seed_len))).n

\* The greatest number of a set of numbers.
MaxOf(S) == CHOOSE m \in S : \A x \in S : x <= m

\* The order-column values of the rows among the records ks of the output.
ValuesOf(ks) == {CursorOf(out[k].rid).n : k \in {j \in ks : CursorOf(out[j].rid).ok}}

\* main is about to execute the poll statement.
BeforePoll == Tailing /\ pc \in {"first_execute", "execute"}

\* C19: immediately before every execution of the poll statement the cursor
\* is the maximum of the seed value and the order-column values of all rows
\* emitted so far; the execution passes that maximum as its parameter, so
\* the parameter every row was selected with is the maximum of the seed
\* value and the values of the rows emitted by the polls before its own.
C19_CursorIsMaxEmitted ==
    /\ [](BeforePoll => last_id = MaxOf({SeedValue} \cup ValuesOf(RowRecords)))
    /\ [][(BeforePoll /\ pc' \in {"first_rows", "loop_rows"}) =>
             param' = MaxOf({SeedValue} \cup ValuesOf(RowRecords))]_vars
    /\ [](cmd = "tail" =>
            \A k \in RowRecords :
                out[k].p = MaxOf({SeedValue} \cup
                                 ValuesOf({j \in RowRecords : out[j].p < out[k].p})))

\* C19's case: a poll has emitted two rows, the second with the smaller
\* order-column value, and the poller is about to execute the next poll
\* with the value of the first.
C19_Witness ==
    /\ BeforePoll
    /\ err = ""
    /\ last_id > SeedValue
    /\ \E j, k \in RowRecords :
          /\ j < k
          /\ out[j].p = out[k].p
          /\ CursorOf(out[k].rid).n < CursorOf(out[j].rid).n
          /\ last_id = CursorOf(out[j].rid).n

\* Table row i is behind the cursor: its order-column value is not above
\* the cursor, it has not been emitted, and it is not among the rows of the
\* result set being read.
Stale(i) ==
    /\ Tailing
    /\ i \in DOMAIN table
    /\ SqlNum(table[i][OrderColumn]) <= last_id
    /\ Emitted(i) = 0
    /\ \A r \in DOMAIN result : result[r] # i

\* C20: a row inserted when the cursor has reached or passed its
\* order-column value is behind the cursor from then on, and a row behind
\* the cursor stays there: no later poll selects it and it is never
\* emitted; the step that leaves it out reports no error.
C20_LateRowsSkippedForever ==
    [][\A i \in 1..MaxRows :
          /\ (Tailing /\ i \notin DOMAIN table /\ i \in DOMAIN table'
                /\ SqlNum(table'[i][OrderColumn]) <= last_id) => Stale(i)'
          /\ Stale(i) => Stale(i)'
          /\ (Stale(i) /\ pc = "execute" /\ pc' = "loop_rows") => err' = ""]_vars

\* C20's case: a row was inserted after seeding with a value not above the
\* seed, a row inserted after it has been emitted by a later poll, and the
\* first of the two has not been emitted.
C20_Witness ==
    /\ Tailing
    /\ err = ""
    /\ pc = "execute"
    /\ \E i, j \in DOMAIN table :
          /\ seed_len < i
          /\ i < j
          /\ SqlNum(table[i][OrderColumn]) <= SeedValue
          /\ Stale(i)
          /\ Emitted(j) = 1

====
